---------------------------- MODULE Spec2Model ----------------------------
(***************************************************************************)
(* The Constellix API client (class api of constellix.py): construction,   *)
(* the signed, retrying request loop of _send, the process-wide GET cache  *)
(* _CACHE_GET, and the public operations search/get/update/create/delete/  *)
(* bulk that call _send.  The provider is the environment: every attempt   *)
(* is answered by a response drawn from Responses.                         *)
(***************************************************************************)
EXTENDS Integers, Sequences, FiniteSets, TLC

(***************************************************************************)
(* Bounds.                                                                 *)
(***************************************************************************)
\* The largest retry cap (the tries argument of api.__init__) that is drawn.
MaxTries == 2

(***************************************************************************)
(* Python values.  Every value carries its type, so that None, '', {} and  *)
(* a decoded JSON document are distinct and truthiness is what Python's is.*)
(***************************************************************************)
None == [py |-> "None"]
PyStr(s) == [py |-> "str", s |-> s]
PyInt(n) == [py |-> "int", n |-> n]
PyList(items) == [py |-> "list", items |-> items]
PyDict(items) == [py |-> "dict", items |-> items]

\* bool(v): None, '', 0, [] and {} are false, everything else is true.
Truthy(v) ==
    CASE v.py = "None" -> FALSE
      [] v.py = "str"  -> v.s # ""
      [] v.py = "int"  -> v.n # 0
      [] v.py = "list" -> v.items # <<>>
      [] v.py = "dict" -> v.items # <<>>

\* str(v) of an id or a name, as the text that ends up in the URL.
str(v) ==
    CASE v.py = "str" -> v.s
      [] v.py = "int" -> (CASE v.n = 1 -> "1" [] v.n = 7 -> "7" [] OTHER -> "0")
      [] OTHER        -> "None"

\* record_type.upper()
upper(t) ==
    CASE t = "a"   -> "A"
      [] t = "ptr" -> "PTR"
      [] OTHER     -> t

\* urllib.parse.urlencode(data): the key=value pairs of the dict, in order.
urlencode(data) == [i \in 1..Len(data.items) |-> <<data.items[i][1], str(data.items[i][2])>>]

(***************************************************************************)
(* The provider's responses.                                               *)
(***************************************************************************)
\* 200 and 201 are the 2xx answers, 400 and 404 the definitive client
\* errors, 500 stands for every other (transient) status.
Statuses == {200, 201, 400, 404, 500}
\* Response bodies as text: two JSON documents and one that is not JSON.
Bodies == {"[1]", "[2]", "oops"}
\* Response headers: with or without the X-Trace header.
NoHeaders == [h \in {} |-> ""]
Headers == {NoHeaders, [h \in {"X-Trace"} |-> "t1"]}
\* The body of a response is read only when its status is 2xx (the code
\* logs the others'); every other status carries the one body "oops".
Responses ==
    {r \in [status_code : Statuses, text : Bodies, headers : Headers] :
        r.status_code \in {200, 201} \/ r.text = "oops"}

\* The exceptions that leave the client.
JSONDecodeError == [py |-> "JSONDecodeError"]
KeyError == [py |-> "KeyError"]
MissingKeySecretError == [py |-> "MissingKeySecretError"]
UnboundLocalError == [py |-> "UnboundLocalError"]

\* response.json(): the decoded document, or JSONDecodeError.
json(text) ==
    CASE text = "[1]" -> PyList(<<1>>)
      [] text = "[2]" -> PyList(<<2>>)
      [] OTHER        -> JSONDecodeError

\* ConstellixAPIError.__init__: status is assigned from url; trace and
\* failures are set only when truthy.
ConstellixAPIError(url, status, trace, failures) ==
    [py |-> "ConstellixAPIError", url |-> url, status |-> url,
     trace |-> trace, failures |-> failures]

(***************************************************************************)
(* State.                                                                  *)
(***************************************************************************)
VARIABLES
    construction,   \* the one call of api.__init__: its arguments and what it raised
    api,            \* the api object (None until constructed): auth and tries
    _CACHE_GET,     \* the module-level GET cache: url -> [status, json]
    call,           \* the activation of _send: its locals, then its outcome
    first_get,      \* history: per url, what the first returned cache-enabled GET gave
    provider,       \* what the provider holds: the zones and their records
    domain,         \* the Domain object of dns.py (None until constructed)
    last            \* the last operation on the Domain: arguments, result, exception

dnsvars == <<provider, domain, last>>
vars == <<construction, api, _CACHE_GET, call, first_get, dnsvars>>

NotConstructed == [called |-> FALSE]
NoUrl == [path |-> <<>>, query |-> <<>>]
EmptyMap == [u \in {} |-> None]

\* No _send activation: the state of `call` before the first call and after
\* an operation that returned without calling _send.
Idle(op) ==
    [pc |-> "idle", op |-> op, method |-> "", url |-> NoUrl, payload |-> None,
     cache |-> FALSE, attempt |-> 0, sent |-> 0, failures |-> <<>>,
     response |-> None, outcome |-> "", value |-> None, error |-> None,
     use_get_cache |-> FALSE, after_first |-> FALSE]

\* A provider that holds nothing, and no operation on a Domain yet.
EmptyProvider == [zones |-> {}, records |-> <<>>]
NoOperation == [op |-> ""]

Init ==
    /\ construction = NotConstructed
    /\ api = None
    /\ _CACHE_GET = EmptyMap
    /\ call = Idle("")
    /\ first_get = EmptyMap
    /\ provider = EmptyProvider
    /\ domain = None
    /\ last = NoOperation

(***************************************************************************)
(* Construction.                                                           *)
(***************************************************************************)
\* Mutant: only the key is checked.
ConstellixAuthentication_keyonly(key, secret) ==
    IF ~Truthy(key)
    THEN MissingKeySecretError
    ELSE [py |-> "ConstellixAuthentication", key |-> key, secret |-> secret]

\* ConstellixAuthentication.__init__: the credentials, or the error raised.
ConstellixAuthentication(key, secret) ==
    IF ~(Truthy(key) /\ Truthy(secret))
    THEN MissingKeySecretError
    ELSE [py |-> "ConstellixAuthentication", key |-> key, secret |-> secret]

\* api.__init__(tries, key, secret): the process constructs its client once;
\* an exception of the constructor leaves no api object.
api__init__(tries, key, secret) ==
    /\ construction = NotConstructed
    /\ LET auth == ConstellixAuthentication(key, secret) IN
       /\ construction' = [called |-> TRUE, key |-> key, secret |-> secret,
                           raised |-> IF auth = MissingKeySecretError THEN auth ELSE None]
       /\ api' = IF auth = MissingKeySecretError
                 THEN None
                 ELSE [py |-> "api", auth |-> auth, tries |-> tries]
    /\ UNCHANGED <<_CACHE_GET, call, first_get, dnsvars>>

(***************************************************************************)
(* _send: the method dispatch and the cache lookup (the code before the    *)
(* loop), then one action per attempt of the retry loop; the attempt that  *)
(* leaves the loop also runs the code after it, to the return or raise.    *)
(***************************************************************************)
\* url = self.url + '/' + str(endpoint), and for a GET with data
\* url += '?' + urlencode(data).  The fixed prefix self.url is left out.
Url(endpoint, query) == [path |-> endpoint, query |-> query]

\* Mutant: the cache flag is set whatever the method.
Dispatch_cachingwrites(endpoint, data, method, use_get_cache) ==
    [url |-> IF method = "GET" /\ Truthy(data)
             THEN Url(endpoint, urlencode(data)) ELSE Url(endpoint, <<>>),
     payload |-> IF method # "GET" /\ Truthy(data) THEN data ELSE PyDict(<<>>),
     cache |-> use_get_cache]

\* The if/elif chain on the method: the url, the payload and the cache flag.
Dispatch(endpoint, data, method, use_get_cache) ==
    LET plain == Url(endpoint, <<>>) IN
    IF method = "POST" /\ Truthy(data)
    THEN [url |-> plain, payload |-> data, cache |-> FALSE]
    ELSE IF method = "PUT" /\ Truthy(data)
    THEN [url |-> plain, payload |-> data, cache |-> FALSE]
    ELSE IF method = "DELETE" /\ Truthy(data)
    THEN [url |-> plain, payload |-> data, cache |-> FALSE]
    ELSE IF method = "GET"
    THEN [url |-> IF Truthy(data) THEN Url(endpoint, urlencode(data)) ELSE plain,
          payload |-> PyDict(<<>>),
          cache |-> use_get_cache]
    ELSE IF Truthy(data)
    THEN [url |-> plain, payload |-> data, cache |-> FALSE]
    ELSE [url |-> plain, payload |-> PyDict(<<>>), cache |-> FALSE]

\* Mutant: the cache is never consulted.
CacheHit_never(method, use_get_cache, url) ==
    FALSE

\* `use_get_cache and url in _CACHE_GET`, reached only in the GET branch.
CacheHit(method, use_get_cache, url) ==
    method = "GET" /\ use_get_cache /\ url \in DOMAIN _CACHE_GET

\* Mutant: only a 200 leaves the loop.
Break_only200(status_code) == status_code = 200

\* The three breaks of the loop.
Break(status_code) ==
    status_code = 200 \/ status_code = 400 \/ status_code = 404

\* Mutant: the loop stops one attempt early.
LoopCondition_offbyone(attempt, tries) == attempt < tries

\* while attempt <= self.__tries
LoopCondition(attempt, tries) == attempt <= tries

\* trace = response.headers["X-Trace"] if present, else 'Unknown'
TraceOf(response) ==
    IF "X-Trace" \in DOMAIN response.headers
    THEN response.headers["X-Trace"]
    ELSE "Unknown"

\* The entry appended to failures for every attempt.  The token and the
\* rate-limit numbers of the entry are copied from the attempt and read by
\* nothing; they are left out.
FailureEntry(attempt, response) ==
    [attempt |-> attempt, trace |-> TraceOf(response), status |-> response.status_code]

\* Mutant: the decode error is not caught.
DecodeBody_unguarded(response) == json(response.text)

\* try: response.json() except JSONDecodeError: response_data stays None
DecodeBody(response) ==
    IF json(response.text) = JSONDecodeError THEN None ELSE json(response.text)

\* Mutant: a 404 is not told apart from the other failures.
Conclude_404raises(url, response, failures) ==
    IF 200 <= response.status_code /\ response.status_code <= 299
    THEN [outcome |-> "returned", value |-> DecodeBody(response), error |-> None]
    ELSE IF "X-Trace" \in DOMAIN response.headers
    THEN [outcome |-> "raised", value |-> None,
          error |-> ConstellixAPIError(url, response.status_code,
                                       response.headers["X-Trace"], failures)]
    ELSE [outcome |-> "raised", value |-> None, error |-> KeyError]

\* Mutant: a 400 is passed over like a 404.
Conclude_400returns(url, response, failures) ==
    IF 200 <= response.status_code /\ response.status_code <= 299
    THEN [outcome |-> "returned", value |-> DecodeBody(response), error |-> None]
    ELSE IF response.status_code = 404 \/ response.status_code = 400
    THEN [outcome |-> "returned", value |-> None, error |-> None]
    ELSE IF "X-Trace" \in DOMAIN response.headers
    THEN [outcome |-> "raised", value |-> None,
          error |-> ConstellixAPIError(url, response.status_code,
                                       response.headers["X-Trace"], failures)]
    ELSE [outcome |-> "raised", value |-> None, error |-> KeyError]

\* The code after the loop, up to the raise: what the call yields.
\* The raise reads response.headers["X-Trace"] unguarded: without the header
\* the expression raises KeyError before ConstellixAPIError is built.
Conclude(url, response, failures) ==
    IF 200 <= response.status_code /\ response.status_code <= 299
    THEN [outcome |-> "returned", value |-> DecodeBody(response), error |-> None]
    ELSE IF response.status_code = 404
    THEN [outcome |-> "returned", value |-> None, error |-> None]
    ELSE IF "X-Trace" \in DOMAIN response.headers
    THEN [outcome |-> "raised", value |-> None,
          error |-> ConstellixAPIError(url, response.status_code,
                                       response.headers["X-Trace"], failures)]
    ELSE [outcome |-> "raised", value |-> None, error |-> KeyError]

\* Mutant: the entry is written whether or not caching was asked for.
CacheStore_always(cache, url, status_code, response_data) ==
    [u \in DOMAIN _CACHE_GET \cup {url} |->
        IF u = url THEN [status |-> status_code, json |-> response_data]
                   ELSE _CACHE_GET[u]]

\* if cache: _CACHE_GET[url] = {status, json, ts}.  ts is the wall clock,
\* read by nothing, and left out.
CacheStore(cache, url, status_code, response_data) ==
    IF cache
    THEN [u \in DOMAIN _CACHE_GET \cup {url} |->
            IF u = url THEN [status |-> status_code, json |-> response_data]
                       ELSE _CACHE_GET[u]]
    ELSE _CACHE_GET

\* History: the first cache-enabled GET of a url that returned.
Observe(c) ==
    IF /\ c.pc = "done" /\ c.outcome = "returned"
       /\ c.method = "GET" /\ c.use_get_cache
       /\ c.url \notin DOMAIN first_get
    THEN [u \in DOMAIN first_get \cup {c.url} |->
            IF u = c.url THEN c.value ELSE first_get[u]]
    ELSE first_get

\* _send up to the first test of the loop: a cache hit returns at once,
\* anything else enters the loop with attempt = 1; were the loop never
\* entered, the read of `response` after it would raise UnboundLocalError.
\* One call runs at a time (the client is synchronous).
_send(op, endpoint, data, method, use_get_cache) ==
    /\ api # None
    /\ call.pc # "loop"
    /\ LET d == Dispatch(endpoint, data, method, use_get_cache)
           entered == [Idle(op) EXCEPT !.method = method, !.url = d.url,
                                       !.payload = d.payload, !.cache = d.cache,
                                       !.use_get_cache = use_get_cache,
                                       !.after_first =
                                            /\ method = "GET" /\ use_get_cache
                                            /\ d.url \in DOMAIN first_get]
           next == IF CacheHit(method, use_get_cache, d.url)
                   THEN [entered EXCEPT !.pc = "done", !.outcome = "returned",
                                        !.value = _CACHE_GET[d.url].json]
                   ELSE IF LoopCondition(1, api.tries)
                   THEN [entered EXCEPT !.pc = "loop", !.attempt = 1]
                   ELSE [entered EXCEPT !.pc = "done", !.attempt = 1,
                                        !.outcome = "raised",
                                        !.error = UnboundLocalError]
       IN /\ call' = next
          /\ first_get' = Observe(next)
    /\ UNCHANGED <<construction, api, _CACHE_GET, dnsvars>>

\* Mutant: the cache is written after a raise too.
CacheWriteReached_always(outcome) ==
    TRUE

\* `if cache: _CACHE_GET[url] = ...` stands after the raise: it is reached
\* only when _send is on its way to the return.
CacheWriteReached(outcome) ==
    outcome = "returned"

\* One pass of the loop body with the provider's response; when the loop
\* ends here, the rest of _send.
_send_attempt(response) ==
    /\ call.pc = "loop"
    /\ LET failures == Append(call.failures, FailureEntry(call.attempt, response))
           attempt == IF Break(response.status_code) THEN call.attempt
                                                     ELSE call.attempt + 1
           looping == [call EXCEPT !.attempt = attempt, !.failures = failures,
                                   !.sent = call.sent + 1, !.response = response]
       IN IF ~Break(response.status_code) /\ LoopCondition(attempt, api.tries)
          THEN /\ call' = looping
               /\ UNCHANGED <<_CACHE_GET, first_get>>
          ELSE LET r == Conclude(call.url, response, failures)
                   ended == [looping EXCEPT !.pc = "done", !.outcome = r.outcome,
                                            !.value = r.value, !.error = r.error]
               IN /\ call' = ended
                  /\ _CACHE_GET' = IF CacheWriteReached(r.outcome)
                                   THEN CacheStore(call.cache, call.url,
                                                   response.status_code, r.value)
                                   ELSE _CACHE_GET
                  /\ first_get' = Observe(ended)
    /\ UNCHANGED <<construction, api, dnsvars>>

(***************************************************************************)
(* The public operations.                                                  *)
(***************************************************************************)
\* uri = str(domain_id) [+ '/records/' + record_type.upper()] [+ '/' + str(record_id)]
ResourceUri(domain_id, record_type, record_id) ==
    <<str(domain_id)>>
      \o (IF Truthy(record_type) THEN <<"records", upper(record_type.s)>> ELSE <<>>)
      \o (IF Truthy(record_id) THEN <<str(record_id)>> ELSE <<>>)

\* uri = [str(domain_id) + '/'] ['records/' + record_type + '/'] 'search':
\* the record type goes in as given, not upper-cased.
SearchUri(domain_id, record_type) ==
    (IF Truthy(domain_id) THEN <<str(domain_id)>> ELSE <<>>)
      \o (IF Truthy(record_type) THEN <<"records", record_type.s>> ELSE <<>>)
      \o <<"search">>

search(data, domain_id, record_type, use_cache) ==
    _send("search", SearchUri(domain_id, record_type),
          IF data.py = "str" THEN PyDict(<< <<"exact", data>> >>) ELSE data,
          "GET", use_cache)

get(domain_id, record_type, record_id, use_cache) ==
    _send("get", ResourceUri(domain_id, record_type, record_id),
          PyDict(<<>>), "GET", use_cache)

update(domain_id, record_type, record_id, data) ==
    _send("update", ResourceUri(domain_id, record_type, record_id), data, "PUT", TRUE)

create(domain_id, record_type, data) ==
    _send("create", <<str(domain_id), "records", upper(record_type.s)>>, data, "POST", TRUE)

delete(domain_id, record_type, record_id) ==
    _send("delete", ResourceUri(domain_id, record_type, record_id),
          PyDict(<<>>), "DELETE", TRUE)

\* bulk returns None without calling _send when there is no data.
bulk(domain_id, data) ==
    IF ~Truthy(data)
    THEN /\ api # None
         /\ call.pc # "loop"
         /\ call' = Idle("bulk")
         /\ UNCHANGED <<construction, api, _CACHE_GET, first_get, dnsvars>>
    ELSE _send("bulk", <<str(domain_id), "records">>, data, "POST", TRUE)

(***************************************************************************)
(* The inputs that are drawn.                                              *)
(***************************************************************************)
Keys == {None, PyStr(""), PyStr("k")}
Secrets == {None, PyStr(""), PyStr("s")}
\* The record that is fetched, updated and deleted.
Resources == {<<PyStr("a"), PyInt(7)>>}
RecordData == {PyDict(<< <<"name", PyStr("www")>> >>)}
BulkData == {None, PyList(<<>>), PyList(<< "add" >>)}

Next ==
    \/ \E tries \in 1..MaxTries, key \in Keys, secret \in Secrets :
          api__init__(tries, key, secret)
    \/ \E response \in Responses : _send_attempt(response)
    \/ \E use_cache \in BOOLEAN : search(PyStr("www"), PyInt(1), PyStr("A"), use_cache)
    \/ \E r \in Resources, use_cache \in BOOLEAN : get(PyInt(1), r[1], r[2], use_cache)
    \/ \E r \in Resources, data \in RecordData : update(PyInt(1), r[1], r[2], data)
    \/ \E data \in RecordData : create(PyInt(1), PyStr("a"), data)
    \/ \E r \in Resources : delete(PyInt(1), r[1], r[2])
    \/ \E data \in BulkData : bulk(PyInt(1), data)

Spec == Init /\ [][Next]_vars

(***************************************************************************)
(* What the claims speak of.                                               *)
(***************************************************************************)
\* The call went to the network and has ended.
Ended == call.pc = "done" /\ call.sent >= 1
\* The status of the i-th response of the call.
StatusAt(i) == call.failures[i].status
Is2xx(status_code) == 200 <= status_code /\ status_code <= 299
\* A transient status: anything other than 2xx, 400 and 404.
Transient(status_code) == ~Is2xx(status_code) /\ status_code \notin {400, 404}
\* Every response before the last one was transient.
EarlierTransient == \A i \in 1..(Len(call.failures) - 1) : Transient(StatusAt(i))
\* The status of the last response.
LastStatus == StatusAt(Len(call.failures))

\* C1: Retry success.  When the responses to attempts 1..k-1 are transient
\* and the k-th is 200 (k <= tries), the call returns the decoded body of the
\* k-th response, has sent exactly k requests and raises nothing: a 200 never
\* leaves the call in the loop, the call that ended on it returned the
\* document of that response after one request per history entry, and a call
\* never gives up on transient responses before attempt number tries.
C1_RetrySuccess ==
    /\ call.pc = "loop" => \A i \in 1..Len(call.failures) : StatusAt(i) # 200
    /\ (Ended /\ EarlierTransient /\ LastStatus = 200) =>
          /\ call.outcome = "returned"
          /\ call.error = None
          /\ call.response.status_code = 200
          /\ call.value = IF json(call.response.text) = JSONDecodeError
                          THEN None ELSE json(call.response.text)
          /\ call.sent = Len(call.failures)
          /\ call.sent <= api.tries
          /\ \A i \in 1..Len(call.failures) : call.failures[i].attempt = i
    /\ (Ended /\ EarlierTransient /\ Transient(LastStatus)) =>
          call.sent = api.tries

\* A call that returned the document of a 200 that followed a transient answer.
C1_Witness ==
    /\ Ended /\ Len(call.failures) = 2
    /\ StatusAt(1) = 500 /\ StatusAt(2) = 200
    /\ call.outcome = "returned" /\ call.value = PyList(<<1>>)

\* C2: Retry exhaustion.  When every response is transient, the call sends
\* exactly tries requests and raises ConstellixAPIError whose failure history
\* has tries entries, one per attempt, in attempt order.
C2_RetryExhaustion ==
    (Ended /\ EarlierTransient /\ Transient(LastStatus)) =>
        /\ call.sent = api.tries
        /\ call.outcome = "raised"
        /\ call.error.py = "ConstellixAPIError"
        /\ Len(call.error.failures) = api.tries
        /\ \A i \in 1..api.tries : call.error.failures[i].attempt = i

\* C3: Success is final.  Once an attempt is answered with any 2xx status no
\* further request is sent: a 2xx status is only ever the last entry of the
\* history of a call that has ended.
C3_SuccessIsFinal ==
    \A i \in 1..Len(call.failures) :
        Is2xx(StatusAt(i)) => (call.pc = "done" /\ i = Len(call.failures))

\* C4: Definitive client errors are never retried.  Once an attempt is
\* answered 400 or 404 no further request is sent: such a status is only ever
\* the last entry of the history of a call that has ended.
C4_ClientErrorsFinal ==
    \A i \in 1..Len(call.failures) :
        StatusAt(i) \in {400, 404} => (call.pc = "done" /\ i = Len(call.failures))

\* A call that ended on a 400 with attempts to spare.
C4_Witness ==
    /\ Ended /\ LastStatus = 400
    /\ call.sent < api.tries

\* C5: Not-found is a value.  Whenever the last response of a call, whatever
\* its method, is a 404, the call returns None and raises nothing.
C5_NotFoundIsValue ==
    (Ended /\ call.response.status_code = 404) =>
        /\ call.outcome = "returned"
        /\ call.value = None
        /\ call.error = None

\* A DELETE answered 404 that returned.
C5_Witness ==
    /\ Ended /\ call.method = "DELETE"
    /\ call.response.status_code = 404
    /\ call.outcome = "returned"

\* C6 as stated: a 400 ends the call, which returns to the caller without
\* raising the provider error.
C6_BadRequestReturns ==
    (Ended /\ call.response.status_code = 400) =>
        /\ call.outcome = "returned"
        /\ call.error = None

\* C6 amended: a 400 ends the call after that attempt and the call does not
\* return: it raises ConstellixAPIError carrying the whole failure history
\* when the response has an X-Trace header, and KeyError when it has none.
C6_BadRequestRaises ==
    (Ended /\ call.response.status_code = 400) =>
        /\ LastStatus = 400
        /\ \A i \in 1..(Len(call.failures) - 1) : StatusAt(i) # 400
        /\ call.outcome = "raised"
        /\ IF "X-Trace" \in DOMAIN call.response.headers
           THEN /\ call.error.py = "ConstellixAPIError"
                /\ call.error.failures = call.failures
           ELSE call.error = KeyError

\* A first attempt answered 400, with retries left, that raised the provider error.
C6_Witness ==
    /\ Ended /\ call.response.status_code = 400
    /\ call.sent = 1 /\ api.tries > 1
    /\ call.outcome = "raised" /\ call.error.py = "ConstellixAPIError"

\* C7: GET cache hit and miss.  After a cache-enabled GET of a url has
\* returned, every later cache-enabled GET of that url sends no request and
\* returns what the first returned; the first one, and every GET with
\* caching disabled, goes to the network.
C7_GetCache ==
    /\ call.after_first =>
          /\ call.pc = "done"
          /\ call.sent = 0
          /\ call.outcome = "returned"
          /\ call.value = first_get[call.url]
    /\ (call.pc = "done" /\ call.method = "GET" /\ ~call.use_get_cache) =>
          call.sent >= 1
    /\ (call.pc = "done" /\ call.method = "GET" /\ call.use_get_cache
            /\ ~call.after_first) =>
          call.sent >= 1

\* A later cache-enabled GET served the first call's document.
C7_Witness ==
    /\ call.after_first /\ call.pc = "done"
    /\ call.sent = 0 /\ call.value = PyList(<<2>>)

\* C8: No cache coherence with writes.  A PUT, POST or DELETE call is never
\* served from the cache and no step of it adds, removes or changes a cache
\* entry, so the cache-enabled GET of the same url issued after the write
\* returns the document cached before it without a request.
C8_WritesLeaveCache ==
    /\ [](call.pc = "done" /\ call.method \in {"PUT", "POST", "DELETE"}
              => call.sent >= 1)
    /\ [][call'.method \in {"PUT", "POST", "DELETE"}
              => _CACHE_GET' = _CACHE_GET]_vars
    /\ [][(/\ call.pc = "done" /\ call.method \in {"PUT", "POST", "DELETE"}
           /\ call.url \in DOMAIN _CACHE_GET
           /\ call'.method = "GET" /\ call'.use_get_cache /\ call'.url = call.url)
              => (/\ call'.pc = "done" /\ call'.sent = 0
                  /\ call'.value = _CACHE_GET[call.url].json)]_vars

\* A PUT to a cached url returned a document other than the cached one.
C8_Witness ==
    /\ call.pc = "done" /\ call.method = "PUT" /\ call.outcome = "returned"
    /\ call.url \in DOMAIN _CACHE_GET
    /\ _CACHE_GET[call.url].json = PyList(<<1>>)
    /\ call.value = PyList(<<2>>)

\* C9: Lenient decode.  When the last response of a call has a 2xx status
\* and a body that is not JSON, the call returns None and raises nothing.
C9_LenientDecode ==
    (/\ Ended /\ Is2xx(call.response.status_code)
     /\ json(call.response.text) = JSONDecodeError) =>
        /\ call.outcome = "returned"
        /\ call.value = None
        /\ call.error = None

\* A 2xx answer with an undecodable body ended a call.
C9_Witness ==
    /\ Ended /\ call.response.status_code = 200
    /\ call.response.text = "oops"
    /\ call.outcome = "returned"

\* C10: Missing credentials are fatal at construction.  Constructing the
\* client with the key or the secret absent or empty raises
\* MissingKeySecretError, leaves no api object and sends no request.
C10_MissingCredentials ==
    (/\ construction.called
     /\ \/ construction.key \in {None, PyStr("")}
        \/ construction.secret \in {None, PyStr("")}) =>
        /\ construction.raised = MissingKeySecretError
        /\ api = None
        /\ call = Idle("")

\* A construction with a key and no secret raised.
C10_Witness ==
    /\ construction.called
    /\ construction.key = PyStr("k") /\ construction.secret = None
    /\ construction.raised = MissingKeySecretError

(***************************************************************************)
(* The Domain of dns.py.  A Domain is built over a working client: every   *)
(* search and get below is answered with what the provider holds (the      *)
(* retries and the cache of _send are the subject of Spec), and what the   *)
(* provider holds does not change while a Domain is used.                  *)
(*                                                                         *)
(* Names (an FQDN, a zone name, a local name) are sequences of characters, *)
(* so that split, join, len and slicing do what Python's do.               *)
(***************************************************************************)
\* The most labels of an FQDN that is drawn.
MaxLabels == 3

\* '.'.join(parts)
RECURSIVE join(_)
join(parts) ==
    IF parts = <<>> THEN <<>>
    ELSE IF Len(parts) = 1 THEN parts[1]
    ELSE parts[1] \o <<".">> \o join(Tail(parts))

\* s.split('.'): the text between the dots; ''.split('.') is [''].
RECURSIVE split(_)
split(s) ==
    IF \A i \in 1..Len(s) : s[i] # "."
    THEN <<s>>
    ELSE LET i == CHOOSE k \in 1..Len(s) :
                    /\ s[k] = "."
                    /\ \A j \in 1..(k - 1) : s[j] # "."
         IN <<SubSeq(s, 1, i - 1)>> \o split(SubSeq(s, i + 1, Len(s)))

\* s[:stop] for a negative stop: all but the last -stop characters.
SliceTo(s, stop) ==
    IF Len(s) + stop > 0 THEN SubSeq(s, 1, Len(s) + stop) ELSE <<>>

\* api.search(name): the zones of that exact name, as the decoded list; None
\* (the provider's 404) when there is none.
ZoneSearch(name) ==
    LET found == {z \in provider.zones : z.name = name}
    IN IF found = {} THEN None ELSE PyList(<<CHOOSE z \in found : TRUE>>)

\* api.get(parent_id): the zone of that id.
ZoneGet(parent_id) ==
    LET found == {z \in provider.zones : z.id = parent_id}
    IN IF found = {} THEN None ELSE CHOOSE z \in found : TRUE

\* Mutant: every search is for the whole name.
searchdomainparts_whole(domainparts, attempt) ==
    domainparts

\* The parts joined for the search of one attempt: from the attempt-th label
\* to the last.
searchdomainparts(domainparts, attempt) ==
    SubSeq(domainparts, attempt, Len(domainparts))

\* The while loop of Domain.__init__: one search per attempt, from the full
\* name downward, left at the first search that gives a non-empty answer.
RECURSIVE ZoneLoop(_, _, _, _)
ZoneLoop(domainparts, attempt, domainData, searches) ==
    IF attempt < Len(domainparts) + 1
    THEN LET query == join(searchdomainparts(domainparts, attempt))
             found == ZoneSearch(query)
         IN IF Truthy(found)
            THEN [attempt |-> attempt, domainData |-> found,
                  searches |-> Append(searches, query)]
            ELSE ZoneLoop(domainparts, attempt + 1, found, Append(searches, query))
    ELSE [attempt |-> attempt, domainData |-> domainData, searches |-> searches]

\* Records(): a store that holds nothing.
Records == [py |-> "Records", holder |-> [t \in {} |-> <<>>]]

\* Domain_PTR()
Domain_PTR == [py |-> "Domain_PTR", A |-> <<>>, AAAA |-> <<>>]

Arpa == <<"a", "r", "p", "a">>

\* Mutant: the zone is read whatever the searches gave.
HasZone_unguarded(domainData) ==
    TRUE

\* `domainData and domainData[0]`
HasZone(domainData) ==
    Truthy(domainData) /\ domainData.items[1] # None

\* Mutant: the dot before the zone name is not counted.
domain_length_nodot(parent_name) ==
    0 - Len(parent_name)

\* 0-(len(self.parent_name)+1)
domain_length(parent_name) ==
    0 - (Len(parent_name) + 1)

TypeError == [py |-> "TypeError"]

\* Domain.__init__(fqdn): the attributes of the new object (a function from
\* attribute names), the searches made, and the exception raised if any.
\* The empty text stands for every falsy fqdn (None is the default).
Domain__init__(fqdn) ==
    LET base == "__changes" :> <<>>
    IN IF fqdn = <<>>
       THEN [attr |-> base, searches |-> <<>>, raised |-> None]
       ELSE LET domainparts == split(fqdn)
                loop == ZoneLoop(domainparts, 1, None, <<>>)
                domainData == loop.domainData
                store == base @@ ("records" :> Records)
                          @@ (IF domainparts[Len(domainparts)] # Arpa
                              THEN "ptr" :> Domain_PTR
                              ELSE [a \in {} |-> None])
            IN IF ~HasZone(domainData)
               THEN [attr |-> store, searches |-> loop.searches, raised |-> None]
               ELSE IF domainData.py # "list" \/ domainData.items = <<>>
               THEN [attr |-> store, searches |-> loop.searches,
                     raised |-> TypeError]
               ELSE LET zone == domainData.items[1]
                    IN [attr |-> store
                                  @@ ("parent_id" :> zone.id)
                                  @@ ("parent_name" :> zone.name)
                                  @@ ("__parent_record" :> ZoneGet(zone.id))
                                  @@ ("name" :>
                                        IF loop.attempt > 1
                                        THEN SliceTo(fqdn, domain_length(zone.name))
                                        ELSE <<>>),
                        searches |-> loop.searches, raised |-> None]

\* hasattr(obj, name): a Domain and a Record carry their attributes in attr;
\* None and a list have none of the attributes asked for here.
hasattr(obj, name) ==
    "attr" \in DOMAIN obj /\ name \in DOMAIN obj.attr

\* domain = Domain(fqdn): the caller holds the object unless the
\* construction raised.
Domain(fqdn) ==
    /\ LET made == Domain__init__(fqdn)
       IN /\ domain' = IF made.raised = None
                       THEN [py |-> "Domain", attr |-> made.attr]
                       ELSE domain
          /\ last' = [op |-> "Domain", fqdn |-> fqdn, searches |-> made.searches,
                      raised |-> made.raised]
    /\ UNCHANGED <<construction, api, _CACHE_GET, call, first_get, provider>>

(***************************************************************************)
(* Zone location: the provider holds up to two zones, and a Domain is      *)
(* constructed for every drawn FQDN.                                       *)
(***************************************************************************)
Labels == {<<"a">>, <<"b", "b">>}

RECURSIVE LabelSeqs(_)
LabelSeqs(n) ==
    IF n = 0 THEN {<<>>}
    ELSE {Append(p, l) : p \in LabelSeqs(n - 1), l \in Labels}

FqdnLabels == UNION {LabelSeqs(n) : n \in 1..MaxLabels}
FQDNs == {join(p) : p \in FqdnLabels} \cup {<<>>}
ZoneNames == {join(p) : p \in FqdnLabels}

ZoneSets ==
    {{}} \cup {{[id |-> 1, name |-> n]} : n \in ZoneNames}
         \cup {{[id |-> 1, name |-> p[1]], [id |-> 2, name |-> p[2]]} :
                    p \in {q \in ZoneNames \X ZoneNames : q[1] # q[2]}}

InitZone ==
    /\ construction = NotConstructed
    /\ api = None
    /\ _CACHE_GET = EmptyMap
    /\ call = Idle("")
    /\ first_get = EmptyMap
    /\ provider \in {[zones |-> z, records |-> <<>>] : z \in ZoneSets}
    /\ domain = None
    /\ last = NoOperation

NextZone ==
    \E fqdn \in FQDNs : Domain(fqdn)

SpecZone == InitZone /\ [][NextZone]_vars

\* The names of the registered zones, and the suffixes of a name, by labels.
Registered == {z.name : z \in provider.zones}
SuffixOf(labels, i) == join(SubSeq(labels, i, Len(labels)))
SomeSuffixRegistered(labels) ==
    \E i \in 1..Len(labels) : SuffixOf(labels, i) \in Registered
LongestRegistered(labels) ==
    CHOOSE i \in 1..Len(labels) :
        /\ SuffixOf(labels, i) \in Registered
        /\ \A j \in 1..(i - 1) : SuffixOf(labels, j) \notin Registered

\* C11 (zone location result): a constructed Domain whose FQDN has a
\* registered suffix has searched the suffixes from the full name downward
\* up to the longest registered one, holds that zone's id and name, and its
\* local name is the dropped leading labels joined by dots (empty when the
\* whole FQDN is the zone).
C11_ZoneLocation ==
    last.op = "Domain" =>
        \A labels \in FqdnLabels :
            (join(labels) = last.fqdn /\ SomeSuffixRegistered(labels)) =>
                LET k == LongestRegistered(labels)
                    zone == CHOOSE z \in provider.zones : z.name = SuffixOf(labels, k)
                IN /\ last.raised = None
                   /\ last.searches = [i \in 1..k |-> SuffixOf(labels, i)]
                   /\ hasattr(domain, "parent_id")
                   /\ domain.attr["parent_id"] = zone.id
                   /\ domain.attr["parent_name"] = zone.name
                   /\ domain.attr["name"] = join(SubSeq(labels, 1, k - 1))

\* A three-label FQDN whose only registered suffix is its last label: the
\* zone is that label and the local name is the first two labels.
C11_Witness ==
    /\ last.op = "Domain"
    /\ \E labels \in LabelSeqs(3) :
        /\ join(labels) = last.fqdn
        /\ Registered = {labels[3]}
        /\ hasattr(domain, "parent_name")
        /\ domain.attr["parent_name"] = labels[3]
        /\ domain.attr["name"] = labels[1] \o <<".">> \o labels[2]

\* C12 (unresolved zone is not an error): constructing a Domain for an FQDN
\* none of whose suffixes is registered raises nothing and leaves the object
\* without a parent_id.
C12_UnresolvedZone ==
    last.op = "Domain" =>
        \A labels \in FqdnLabels :
            (join(labels) = last.fqdn /\ ~SomeSuffixRegistered(labels)) =>
                /\ last.raised = None
                /\ ~hasattr(domain, "parent_id")
                /\ last.searches = [i \in 1..Len(labels) |-> SuffixOf(labels, i)]

\* A single-label name that is no zone, with another zone registered.
C12_Witness ==
    /\ last.op = "Domain"
    /\ last.fqdn \in Labels
    /\ last.fqdn \notin Registered
    /\ Registered # {}
    /\ last.raised = None
    /\ domain # None /\ ~hasattr(domain, "parent_id")

\* C27 (zone search count): constructing a Domain for a name of n labels
\* makes at least one and at most n searches, the i-th for the name without
\* its first i-1 labels, so each shorter than the one before; no search
\* follows one that found a zone; the searches are exactly k when the k-th
\* suffix is the first registered one, and exactly n when none is.
C27_ZoneSearchCount ==
    (last.op = "Domain" /\ last.fqdn # <<>>) =>
        LET labels == split(last.fqdn)
            n == Len(labels)
            made == Len(last.searches)
            first == {k \in 1..n : /\ SuffixOf(labels, k) \in Registered
                                   /\ \A j \in 1..(k - 1) :
                                        SuffixOf(labels, j) \notin Registered}
        IN /\ 1 <= made /\ made <= n
           /\ \A i \in 1..made : last.searches[i] = SuffixOf(labels, i)
           /\ \A i \in 1..(made - 1) :
                /\ Len(last.searches[i + 1]) < Len(last.searches[i])
                /\ last.searches[i] \notin Registered
           /\ \A k \in first : made = k
           /\ first = {} => made = n

\* A name of three labels whose second suffix is the first registered one:
\* two searches were made.
C27_Witness ==
    /\ last.op = "Domain"
    /\ Len(split(last.fqdn)) = 3
    /\ Len(last.searches) = 2
    /\ last.searches[1] \notin Registered
    /\ last.searches[2] \in Registered

(***************************************************************************)
(* Records: what the provider returns for a record, the Record built from  *)
(* it, and the Records store of a Domain.                                  *)
(***************************************************************************)
AttributeError == [py |-> "AttributeError"]
ValueError == [py |-> "ValueError"]
DomainRecordsError == [py |-> "DomainRecordsError"]
DomainUpdateError == [py |-> "DomainUpdateError"]

\* The address texts drawn; every other text is no address.
Addresses == {"10.0.0.1", "10.0.0.2", "2001:db8::1", "2001:DB8:0::1"}

\* ipaddress.ip_address(value) accepts the text of an address and raises
\* ValueError for every other text.
is_address(value) ==
    value \in Addresses

\* str(ipaddress.ip_address(value)): the canonical text of an address (IPv6
\* is lower-cased and compressed).
ip_address(value) ==
    CASE value = "2001:DB8:0::1"  -> "2001:db8::1"
      [] OTHER                    -> value

\* name.lower(), character by character.
lower(name) ==
    [i \in DOMAIN name |->
        CASE name[i] = "A" -> "a"
          [] name[i] = "B" -> "b"
          [] OTHER         -> name[i]]

\* The name a search of the provider finds a record under: the name of the
\* record, unless the provider lists the record under another one (what the
\* provider matches a search against is its own affair; the code reads the
\* name of a record from the payload fetched by id).
ListedName(r) ==
    IF "listed" \in DOMAIN r THEN r.listed ELSE r.data["name"]

\* api.search(self.name, self.parent_id, record_type): the records of that
\* zone and type that the provider finds for the name, in the provider's
\* order; None when there is none.
RecordSearch(name, parent_id, record_type) ==
    LET found == SelectSeq(provider.records,
                           LAMBDA r : /\ r.zone = parent_id
                                      /\ r.data["type"] = record_type
                                      /\ ListedName(r) = name)
    IN IF found = <<>> THEN None
       ELSE PyList([i \in DOMAIN found |-> found[i].data])

\* api.get(self.parent_id, record_type, record["id"]): the record of that id.
RecordGet(parent_id, record_type, record_id) ==
    LET found == SelectSeq(provider.records,
                           LAMBDA r : /\ r.zone = parent_id
                                      /\ r.data["type"] = record_type
                                      /\ r.data["id"] = record_id)
    IN IF found = <<>> THEN None ELSE found[1].data

\* Mutant: no value is passed over.
skipped_never(entry) ==
    FALSE

\* `if "value" in value and "disableFlag" in value: if value["disableFlag"]:
\* continue`: the value of a disabled entry is passed over.
skipped(entry) ==
    {"value", "disableFlag"} \subseteq DOMAIN entry /\ entry["disableFlag"]

\* Record.__clean_values(values) for the entries of a provider payload
\* ({"value": ..., "disableFlag": ...}): disabled entries are skipped, the
\* values of an A or AAAA record are put through ip_address, and each value
\* is kept as text.  Gives the list, and the exception ip_address raised.
RECURSIVE clean_values(_, _, _)
clean_values(attr, values, clean) ==
    IF values = <<>> THEN [raised |-> None, clean |-> clean]
    ELSE LET entry == Head(values)
             wrapped == {"value", "disableFlag"} \subseteq DOMAIN entry
             value == IF wrapped THEN entry["value"] ELSE entry
             address == /\ "record_type" \in DOMAIN attr
                        /\ attr["record_type"] \in {"A", "AAAA"}
         IN IF skipped(entry)
            THEN clean_values(attr, Tail(values), clean)
            ELSE IF address /\ ~is_address(value)
            THEN [raised |-> ValueError, clean |-> clean]
            ELSE clean_values(attr, Tail(values),
                              Append(clean, IF address THEN ip_address(value)
                                                       ELSE value))

\* Record(provider_data = data): id, name (lower-cased), record_type
\* (upper-cased) and values, each set only when the payload has the key.
Record(provider_data) ==
    LET none == [a \in {} |-> None]
        with_id == IF "id" \in DOMAIN provider_data
                   THEN "id" :> provider_data["id"] ELSE none
        with_name == IF "name" \in DOMAIN provider_data
                     THEN "name" :> lower(provider_data["name"]) ELSE none
        with_type == IF "type" \in DOMAIN provider_data
                     THEN "record_type" :> upper(provider_data["type"]) ELSE none
        attr == ("__provider_data" :> provider_data)
                  @@ with_id @@ with_name @@ with_type
        values == IF "value" \in DOMAIN provider_data
                  THEN clean_values(attr, provider_data["value"], <<>>)
                  ELSE [raised |-> None, clean |-> <<>>]
    IN IF values.raised # None
       THEN [raised |-> values.raised, record |-> None]
       ELSE [raised |-> None,
             record |-> [py |-> "Record",
                         attr |-> IF "value" \in DOMAIN provider_data
                                  THEN attr @@ ("values" :> values.clean)
                                  ELSE attr]]

\* `hasattr(self, "__A")` inside class Records: the attribute that
\* `self.__A = ...` sets is named _Records__A, the one looked up here is
\* named __A, and no attribute of that name is ever set.
HolderFound(records, record_type) ==
    FALSE

\* The getter of Records for a type: the records of the holder as a list,
\* the empty list when there is no holder.
Records_get(records, record_type) ==
    PyList(IF record_type \in DOMAIN records.holder
           THEN records.holder[record_type] ELSE <<>>)

\* The setter of Records for a type: the store afterwards and the exception
\* raised if any.  The holder is held as the list of its records, a record
\* of a name that is already there taking the place of the earlier one.
Records_set(records, record_type, record) ==
    IF record.py # "Record"
    THEN [raised |-> DomainRecordsError, records |-> records]
    ELSE LET holder == IF HolderFound(records, record_type)
                       THEN records.holder[record_type] ELSE <<>>
             held == [records EXCEPT !.holder = (record_type :> holder) @@ @]
             others == SelectSeq(holder,
                                 LAMBDA r : r.attr["name"] # record.attr["name"])
         IN IF ~hasattr(record, "name")
            THEN [raised |-> DomainRecordsError, records |-> held]
            ELSE [raised |-> None,
                  records |-> [records EXCEPT !.holder =
                                 (record_type :> Append(others, record)) @@ @]]

\* Records.reset(record_type): the holder is deleted when hasattr finds it.
reset(records, record_type) ==
    IF HolderFound(records, record_type)
    THEN [records EXCEPT !.holder =
            [t \in DOMAIN @ \ {record_type} |-> @[t]]]
    ELSE records

\* The loop of get_all_records over the records the search gave: each is
\* fetched by id, made a Record and stored; an exception ends the loop.
RECURSIVE StoreAll(_, _, _, _)
StoreAll(records, parent_id, record_type, found) ==
    IF found = <<>> THEN [raised |-> None, records |-> records]
    ELSE LET data == RecordGet(parent_id, record_type, Head(found)["id"])
         IN IF data = None \/ "id" \notin DOMAIN data
            THEN StoreAll(records, parent_id, record_type, Tail(found))
            ELSE LET made == Record(data)
                 IN IF made.raised # None
                    THEN [raised |-> made.raised, records |-> records]
                    ELSE LET stored == Records_set(records, record_type, made.record)
                         IN IF stored.raised # None
                            THEN stored
                            ELSE StoreAll(stored.records, parent_id,
                                          record_type, Tail(found))

\* Domain.get_all_records(record_type) on a Domain object: the object
\* afterwards, the list returned and the exception raised if any.
Domain_get_all_records(obj, record_type) ==
    IF ~hasattr(obj, "records") \/ ~hasattr(obj, "name")
                                \/ ~hasattr(obj, "parent_id")
    THEN [raised |-> AttributeError, obj |-> obj, result |-> None]
    ELSE LET cleared == reset(obj.attr["records"], record_type)
             records == RecordSearch(obj.attr["name"], obj.attr["parent_id"],
                                     record_type)
             stored == IF Truthy(records)
                       THEN StoreAll(cleared, obj.attr["parent_id"], record_type,
                                     records.items)
                       ELSE [raised |-> None, records |-> cleared]
             after == [obj EXCEPT !.attr = ("records" :> stored.records) @@ @]
         IN [raised |-> stored.raised, obj |-> after,
             result |-> IF stored.raised = None
                        THEN Records_get(stored.records, record_type) ELSE None]

get_all_records(record_type) ==
    /\ domain # None
    /\ LET r == Domain_get_all_records(domain, record_type)
       IN /\ domain' = r.obj
          /\ last' = [op |-> "get_all_records", record_type |-> record_type,
                      result |-> r.result, raised |-> r.raised]
    /\ UNCHANGED <<construction, api, _CACHE_GET, call, first_get, provider>>

\* domain.records.<record_type> = value: the setter of Records for the
\* type, called by a user of the class.
store(record_type, value) ==
    /\ domain # None
    /\ IF ~hasattr(domain, "records")
       THEN /\ last' = [op |-> "store", record_type |-> record_type,
                        value |-> value, raised |-> AttributeError]
            /\ UNCHANGED domain
       ELSE \E r \in {Records_set(domain.attr["records"], record_type, value)} :
            /\ domain' = [domain EXCEPT !.attr = ("records" :> r.records) @@ @]
            /\ last' = [op |-> "store", record_type |-> record_type,
                        value |-> value, raised |-> r.raised]
    /\ UNCHANGED <<construction, api, _CACHE_GET, call, first_get, provider>>

(***************************************************************************)
(* The diff of the desired values against the stored record, add_update    *)
(* and sync.                                                               *)
(***************************************************************************)
\* bool(v) of an object (always true) or of a plain value.
bool(v) ==
    IF "attr" \in DOMAIN v THEN TRUE ELSE Truthy(v)

\* value in values
InSeq(value, values) ==
    \E i \in DOMAIN values : values[i] = value

\* Domain.__diff(record_type, new_values) once `current` has been read from
\* the store: the dict returned (None for the null result) and the
\* exception raised if any.  `print(current.values)` reads the attribute
\* `values` of what the store's getter returned, before anything else.
Domain__diff(current, new_values) ==
    IF ~hasattr(current, "values")
    THEN [raised |-> AttributeError, diff |-> None]
    ELSE IF ~bool(current) /\ ~Truthy(new_values)
    THEN [raised |-> None, diff |-> None]
    ELSE IF new_values = None
    THEN [raised |-> TypeError, diff |-> None]
    ELSE LET has == hasattr(current, "values") /\ current.attr["values"] # <<>>
             held == IF has THEN current.attr["values"] ELSE <<>>
             wanted == new_values.items
         IN [raised |-> None,
             diff |-> [to_delete |-> SelectSeq(held,
                                        LAMBDA v : /\ wanted # <<>>
                                                   /\ ~InSeq(v, wanted)),
                       to_create |-> SelectSeq(wanted,
                                        LAMBDA v : ~(has /\ InSeq(v, held))),
                       exists |-> SelectSeq(wanted,
                                        LAMBDA v : has /\ InSeq(v, held))]]

\* record_type.lower()
type_lower(record_type) ==
    CASE record_type = "A"    -> "a"
      [] record_type = "AAAA" -> "aaaa"
      [] record_type = "PTR"  -> "ptr"
      [] OTHER                -> record_type

\* template_A / template_AAAA (values): the name and the values as
\* canonical address text, every one enabled (the ttl is left out).
template(obj, values) ==
    IF \E i \in DOMAIN values : ~is_address(values[i])
    THEN [raised |-> ValueError, set |-> None]
    ELSE IF ~hasattr(obj, "name")
    THEN [raised |-> AttributeError, set |-> None]
    ELSE [raised |-> None,
          set |-> [name |-> obj.attr["name"],
                   roundRobin |-> [i \in DOMAIN values |->
                                     [value |-> ip_address(values[i]),
                                      disableFlag |-> FALSE]]]]

\* Domain.add_update(record_type, values) on a Domain object: the object
\* afterwards, the values diffed, the list the store gave, what __diff
\* returned or raised, and the exception add_update ended with if any.
Domain_add_update(obj, record_type, values) ==
    LET listed == IF Truthy(values) /\ values.py = "str"
                  THEN PyList(<<values.s>>) ELSE values
    IN IF ~hasattr(obj, "records")
       THEN [raised |-> AttributeError, obj |-> obj, values |-> listed,
             current |-> None, diffed |-> FALSE, diff_raised |-> None,
             result |-> None]
       ELSE LET current == Records_get(obj.attr["records"], record_type)
                d == Domain__diff(current, listed)
                ended(e, after) ==
                    [raised |-> e, obj |-> after, values |-> listed,
                     current |-> current, diffed |-> TRUE,
                     diff_raised |-> d.raised, result |-> d.diff]
            IN IF d.raised # None
               THEN ended(d.raised, obj)
               ELSE IF d.diff = None
               THEN ended(TypeError, obj)
               ELSE IF d.diff.to_create = <<>>
               THEN ended(None, obj)
               ELSE LET t == template(obj, d.diff.to_create)
                        change == [type |-> type_lower(record_type),
                                   add |-> TRUE, set |-> t.set]
                    IN IF t.raised # None
                       THEN ended(t.raised, obj)
                       ELSE ended(None,
                                  [obj EXCEPT !.attr =
                                     ("__changes" :>
                                        Append(obj.attr["__changes"], change))
                                     @@ @])

add_update(record_type, values) ==
    /\ domain # None
    /\ LET r == Domain_add_update(domain, record_type, values)
       IN /\ domain' = r.obj
          /\ last' = [op |-> "add_update", record_type |-> record_type,
                      values |-> r.values, current |-> r.current,
                      diffed |-> r.diffed, diff_raised |-> r.diff_raised,
                      result |-> r.result, raised |-> r.raised,
                      queued |-> Len(r.obj.attr["__changes"])
                                    - Len(domain.attr["__changes"])]
    /\ UNCHANGED <<construction, api, _CACHE_GET, call, first_get, provider>>

\* What the provider holds after a bulk request was accepted: every "add"
\* entry becomes a record of the zone, with an id of its own.
RECURSIVE ApplyBulk(_, _, _)
ApplyBulk(records, parent_id, changes) ==
    IF changes = <<>> THEN records
    ELSE LET change == Head(changes)
             id == 100 + Len(records)
             data == [id |-> id, name |-> change.set.name,
                      type |-> upper(change.type), value |-> change.set.roundRobin]
         IN ApplyBulk(Append(records, [zone |-> parent_id, data |-> data]),
                      parent_id, Tail(changes))

\* Domain.pending_changes: whether the list of queued changes has an entry.
pending_changes(obj) ==
    Truthy(PyList(obj.attr["__changes"])) /\ Len(obj.attr["__changes"]) > 0

\* Mutant: a request is sent whatever the data.
bulk_requests_always(domain_id, data) ==
    <<[method |-> "POST", uri |-> <<domain_id, "records">>, data |-> data]>>

\* api.bulk(domain_id, data) as sync sees it, by the requests it makes: none
\* when the data is falsy, one POST of the data to <domain_id>/records
\* otherwise.
bulk_requests(domain_id, data) ==
    IF ~Truthy(PyList(data)) THEN <<>>
    ELSE <<[method |-> "POST", uri |-> <<domain_id, "records">>, data |-> data]>>

\* Domain.sync(): the queued changes go to the provider in one bulk request
\* (api.bulk sends nothing for an empty list); the queue is left as it is,
\* the answer of the provider is logged, and the Domain itself is returned.
sync ==
    /\ domain # None
    /\ IF ~hasattr(domain, "parent_id")
       THEN /\ last' = [op |-> "sync", sent |-> <<>>, raised |-> AttributeError,
                        result |-> None, requests |-> <<>>]
            /\ UNCHANGED provider
       ELSE IF domain.attr["parent_id"] = 0
       THEN /\ last' = [op |-> "sync", sent |-> <<>>, raised |-> DomainUpdateError,
                        result |-> None, requests |-> <<>>]
            /\ UNCHANGED provider
       ELSE \E requests \in {bulk_requests(domain.attr["parent_id"],
                                           domain.attr["__changes"])} :
            /\ last' = [op |-> "sync", sent |-> domain.attr["__changes"],
                        raised |-> None, result |-> domain,
                        requests |-> requests]
            /\ provider' = IF requests = <<>> THEN provider
                           ELSE [provider EXCEPT !.records =
                                    ApplyBulk(@, domain.attr["parent_id"],
                                              requests[1].data)]
    /\ UNCHANGED <<construction, api, _CACHE_GET, call, first_get, domain>>

(***************************************************************************)
(* Reconciliation of one host: the provider holds the zone bb and, under   *)
(* the name a, the drawn A and AAAA records.                               *)
(***************************************************************************)
HostZone == [id |-> 1, name |-> <<"b", "b">>]
HostName == <<"a">>
HostFqdn == join(<<HostName, HostZone.name>>)

enabled(value) == [value |-> value, disableFlag |-> FALSE]
disabled(value) == [value |-> value, disableFlag |-> TRUE]

\* A record of the host as the provider returns it.
HostRecord(id, record_type, value) ==
    [zone |-> HostZone.id,
     data |-> [id |-> id, name |-> HostName, type |-> record_type,
               value |-> value]]

\* A record the provider gives for a search of the host's name although
\* its own name is another one.
ListedRecord(id, name, record_type, value) ==
    [zone |-> HostZone.id,
     data |-> [id |-> id, name |-> name, type |-> record_type, value |-> value],
     listed |-> HostName]

ARecords ==
    { <<>>,
      <<HostRecord(7, "A", <<enabled("10.0.0.1")>>),
        ListedRecord(8, <<"b">>, "A", <<enabled("10.0.0.2")>>)>>,
      <<HostRecord(7, "A", <<enabled("10.0.0.1")>>)>>,
      <<HostRecord(7, "A", <<enabled("10.0.0.1"), enabled("10.0.0.2")>>)>>,
      <<HostRecord(7, "A", <<enabled("10.0.0.1"), disabled("10.0.0.2")>>)>>,
      <<HostRecord(7, "A", <<enabled("10.0.0.1")>>),
        HostRecord(8, "A", <<enabled("10.0.0.2")>>)>> }

AAAARecords ==
    { <<>>,
      <<HostRecord(9, "AAAA", <<enabled("2001:db8::1")>>)>>,
      <<HostRecord(9, "AAAA", <<enabled("2001:DB8:0::1")>>)>> }

\* The values a caller passes to add_update.
Desired ==
    { None, PyList(<<>>), PyStr("10.0.0.1"),
      PyList(<<"10.0.0.1">>),
      PyList(<<"10.0.0.1", "10.0.0.2">>),
      PyList(<<"10.0.0.2", "10.0.0.1">>),
      PyList(<<"2001:db8::1">>),
      PyList(<<"2001:DB8:0::1">>) }

\* Values a user of the class assigns to a slot of the store that the
\* setter rejects: a text, None, and Record(id = 5, record_type = "A"),
\* which has no name.
Rejected ==
    { PyStr("a"), None,
      [py |-> "Record", attr |-> ("id" :> 5) @@ ("record_type" :> "A")] }

InitDiff ==
    /\ construction = NotConstructed
    /\ api = None
    /\ _CACHE_GET = EmptyMap
    /\ call = Idle("")
    /\ first_get = EmptyMap
    /\ provider \in {[zones |-> {HostZone}, records |-> a \o b] :
                        a \in ARecords, b \in AAAARecords}
    /\ domain = None
    /\ last = NoOperation

NextDiff ==
    \/ \E fqdn \in {HostFqdn, HostName} : Domain(fqdn)
    \/ \E record_type \in {"A", "AAAA"} : get_all_records(record_type)
    \/ \E record_type \in {"A", "AAAA"}, values \in Desired :
            add_update(record_type, values)
    \/ sync
    \/ \E value \in Rejected : store("A", value)

SpecDiff == InitDiff /\ [][NextDiff]_vars

\* What a diff was given: the records the store held for the type, the one
\* record diffed against (the current record) and the desired values.
Diffed == last.op = "add_update" /\ last.diffed
NoCurrent == last.current.items = <<>>
HasCurrent == last.current.items # <<>> /\ hasattr(last.current.items[1], "id")
CurrentRecord == last.current.items[1]
DesiredAbsent == ~Truthy(last.values)
DesiredValues == IF Truthy(last.values) THEN last.values.items ELSE <<>>
SetOf(values) == {values[i] : i \in DOMAIN values}
\* The diff returned a dict whose create and delete lists are empty.
NothingToCreateOrDelete ==
    /\ last.result.to_create = <<>>
    /\ last.result.to_delete = <<>>
    /\ "to_update" \notin DOMAIN last.result \/ last.result["to_update"] = <<>>

\* C13 (diff of nothing against nothing): with no current record and no
\* desired value, the diff returns the null result and queues no operation.
C13_NothingToNothing ==
    (Diffed /\ NoCurrent /\ DesiredAbsent) =>
        /\ last.diff_raised = None
        /\ last.result = None
        /\ last.queued = 0

\* C14 (delete on empty desired): with a current record that has an id and
\* no desired value, the diff returns exactly one delete, keyed by that id,
\* and nothing to create or update.
C14_DeleteOnEmptyDesired ==
    (Diffed /\ HasCurrent /\ DesiredAbsent) =>
        /\ last.diff_raised = None
        /\ last.result # None
        /\ last.result.to_delete = <<CurrentRecord.attr["id"]>>
        /\ last.result.to_create = <<>>
        /\ "to_update" \notin DOMAIN last.result \/ last.result["to_update"] = <<>>
        /\ last.queued = 0

\* C15 (order-independent match): when the desired values and the current
\* record's values are the same set, whatever their order, every value is
\* reported under exists and nothing is created, updated or deleted.
C15_OrderIndependentMatch ==
    (/\ Diffed /\ HasCurrent /\ ~DesiredAbsent
     /\ hasattr(CurrentRecord, "values")
     /\ SetOf(CurrentRecord.attr["values"]) = SetOf(DesiredValues)) =>
        /\ last.diff_raised = None
        /\ last.result # None
        /\ SetOf(last.result.exists) = SetOf(DesiredValues)
        /\ NothingToCreateOrDelete
        /\ last.queued = 0

\* C16 (full replace): when the desired values are not empty and are not
\* the set of the current record's values, the diff returns one update that
\* carries all the desired values if the current record has an id, and one
\* create that carries all the desired values if there is no current record.
C16_FullReplace ==
    (/\ Diffed /\ ~DesiredAbsent
     /\ \/ NoCurrent
        \/ /\ HasCurrent /\ hasattr(CurrentRecord, "values")
           /\ SetOf(CurrentRecord.attr["values"]) # SetOf(DesiredValues)) =>
        /\ last.diff_raised = None
        /\ last.result # None
        /\ IF HasCurrent
           THEN /\ "to_update" \in DOMAIN last.result
                /\ last.result["to_update"] = DesiredValues
                /\ last.result.to_create = <<>>
           ELSE /\ last.result.to_create = DesiredValues
                /\ "to_update" \notin DOMAIN last.result
                      \/ last.result["to_update"] = <<>>

\* A diff returned a dict (the state the exclusivity of C17 is about).
C17_DiffResultReturned ==
    Diffed /\ last.diff_raised = None /\ last.result # None

\* C17 (exclusivity): in a dict returned by the diff no value is in more
\* than one of exists, to_create, to_update and to_delete.
C17_Exclusivity ==
    C17_DiffResultReturned =>
        LET r == last.result
            updated == IF "to_update" \in DOMAIN r THEN SetOf(r["to_update"]) ELSE {}
        IN /\ SetOf(r.exists) \cap SetOf(r.to_create) = {}
           /\ SetOf(r.exists) \cap SetOf(r.to_delete) = {}
           /\ SetOf(r.to_create) \cap SetOf(r.to_delete) = {}
           /\ updated \cap (SetOf(r.exists) \cup SetOf(r.to_create)
                                            \cup SetOf(r.to_delete)) = {}
           /\ updated = {} \/ r.to_create = <<>>

\* The enabled values of a provider payload, as canonical address text.
EnabledValues(data) ==
    LET on == SelectSeq(data["value"], LAMBDA e : ~e["disableFlag"])
    IN {ip_address(on[i]["value"]) : i \in DOMAIN on}
\* The provider holds one record of the type under the host's name, the
\* store holds the Record made from it, and its enabled values are the
\* desired values: the state that applying a diff and fetching again gives.
Converged ==
    /\ Diffed /\ HasCurrent /\ ~DesiredAbsent
    /\ LET held == SelectSeq(provider.records,
                             LAMBDA r : r.data["type"] = last.record_type)
       IN /\ Len(held) = 1
          /\ CurrentRecord.attr["__provider_data"] = held[1].data
          /\ EnabledValues(held[1].data)
                = {ip_address(DesiredValues[i]) : i \in DOMAIN DesiredValues}

\* C18 (idempotence): once the provider holds the desired values and the
\* record has been fetched again, the diff reports exists only and the run
\* queues no operation.
C18_Idempotence ==
    Converged =>
        /\ last.diff_raised = None
        /\ last.result # None
        /\ last.result.exists # <<>>
        /\ NothingToCreateOrDelete
        /\ last.queued = 0
        /\ domain.attr["__changes"] = <<>>

\* C19 (record/diff round trip): a Record made from a payload whose entries
\* are all enabled, diffed against the payload's own value texts, reports
\* every value under exists and nothing else.
C19_RoundTrip ==
    (/\ Diffed /\ HasCurrent /\ ~DesiredAbsent
     /\ LET payload == CurrentRecord.attr["__provider_data"]["value"]
        IN /\ \A i \in DOMAIN payload : ~payload[i]["disableFlag"]
           /\ DesiredValues = [i \in DOMAIN payload |-> payload[i]["value"]]) =>
        /\ last.diff_raised = None
        /\ last.result # None
        /\ last.result.exists = DesiredValues
        /\ NothingToCreateOrDelete

(***************************************************************************)
(* Reverse records: get_known_ptr and sync_ptr.                            *)
(***************************************************************************)
InAddr == <<"i", "n", "-", "a", "d", "d", "r">>
Ip6 == <<"i", "p", "6">>
Zeros(n) == [i \in 1..n |-> <<"0">>]

\* ipaddress.ip_address(ip).reverse_pointer: the octets (IPv4) or the 32
\* nibbles (IPv6) in reverse order, under in-addr.arpa or ip6.arpa.
reverse_pointer(ip) ==
    CASE ip = "10.0.0.1" ->
            join(<< <<"1">>, <<"0">>, <<"0">>, <<"1", "0">>, InAddr, Arpa >>)
      [] ip = "10.0.0.2" ->
            join(<< <<"2">>, <<"0">>, <<"0">>, <<"1", "0">>, InAddr, Arpa >>)
      [] OTHER ->
            join(<< <<"1">> >> \o Zeros(23)
                  \o << <<"8">>, <<"b">>, <<"d">>, <<"0">>,
                        <<"1">>, <<"0">>, <<"0">>, <<"2">>, Ip6, Arpa >>)

\* Mutant: every reverse Domain is taken to have a zone.
ptr_found_always(ptr) ==
    TRUE

\* `if ptr and hasattr(ptr, "parent_id")`: a Domain object is always true.
ptr_found(ptr) ==
    hasattr(ptr, "parent_id")

\* The innermost loop of get_known_ptr over the values of one record: for
\* each address a Domain is constructed for its reverse name and, when that
\* Domain has a zone, its PTR records are fetched and {address: Domain} is
\* appended to the list kept for the record type.  (A local variable of the
\* code is bound here as `x \in {value}`, which computes the value once.)
RECURSIVE ptr_of_values(_, _)
ptr_of_values(values, ptr_records) ==
    IF values = <<>> THEN [raised |-> None, ptr_records |-> ptr_records]
    ELSE CHOOSE result \in {
            IF made.raised # None
            THEN [raised |-> made.raised, ptr_records |-> ptr_records]
            ELSE IF ~ptr_found(made)
            THEN ptr_of_values(Tail(values), ptr_records)
            ELSE CHOOSE fetched_result \in {
                    IF fetched.raised # None
                    THEN [raised |-> fetched.raised, ptr_records |-> ptr_records]
                    ELSE ptr_of_values(Tail(values),
                            Append(ptr_records,
                                   [ip |-> ip_address(Head(values)),
                                    ptr |-> fetched.obj]))
                    : fetched \in {Domain_get_all_records(
                                      [py |-> "Domain", attr |-> made.attr],
                                      "PTR")}} : TRUE
            : made \in {Domain__init__(
                           reverse_pointer(ip_address(Head(values))))}} : TRUE

\* The loop of get_known_ptr over the records of one type.
RECURSIVE ptr_of_records(_, _)
ptr_of_records(records, ptr_records) ==
    IF records = <<>> THEN [raised |-> None, ptr_records |-> ptr_records]
    ELSE IF /\ hasattr(Head(records), "values")
            /\ Len(Head(records).attr["values"]) > 0
    THEN CHOOSE result \in {
            IF r.raised # None THEN r
            ELSE ptr_of_records(Tail(records), r.ptr_records)
            : r \in {ptr_of_values(Head(records).attr["values"],
                                   ptr_records)}} : TRUE
    ELSE ptr_of_records(Tail(records), ptr_records)

\* One pass of the outer loop of get_known_ptr, for one record type: the
\* list of the type is emptied, the records of the type are fetched, and
\* the list is filled from them.
known_ptr_of_type(obj, record_type) ==
    IF ~hasattr(obj, "ptr")
    THEN [raised |-> AttributeError, obj |-> obj]
    ELSE CHOOSE result \in {
            IF fetched.raised # None
            THEN [raised |-> fetched.raised, obj |-> fetched.obj]
            ELSE CHOOSE filled \in {
                    [raised |-> r.raised,
                     obj |-> [fetched.obj EXCEPT !.attr =
                                ("ptr" :> [fetched.obj.attr["ptr"]
                                             EXCEPT ![record_type] = r.ptr_records])
                                @@ @]]
                    : r \in {IF Truthy(fetched.result)
                             THEN ptr_of_records(fetched.result.items, <<>>)
                             ELSE [raised |-> None, ptr_records |-> <<>>]}} : TRUE
            : fetched \in {Domain_get_all_records(
                              [obj EXCEPT !.attr =
                                 ("ptr" :> [obj.attr["ptr"]
                                              EXCEPT ![record_type] = <<>>]) @@ @],
                              record_type)}} : TRUE

\* Domain.get_known_ptr(): A, then AAAA.
get_known_ptr ==
    /\ domain # None
    /\ \E a \in {known_ptr_of_type(domain, "A")} :
       \E aaaa \in {IF a.raised = None THEN known_ptr_of_type(a.obj, "AAAA")
                                       ELSE a} :
          /\ domain' = aaaa.obj
          /\ last' = [op |-> "get_known_ptr", raised |-> aaaa.raised]
    /\ UNCHANGED <<construction, api, _CACHE_GET, call, first_get, provider>>

\* Domain.sync_ptr(): DomainRecordsError without self.ptr; otherwise every
\* known {address: Domain} is logged, and nothing else is done.
sync_ptr ==
    /\ domain # None
    /\ last' = [op |-> "sync_ptr",
                raised |-> IF hasattr(domain, "ptr") THEN None
                                                     ELSE DomainRecordsError,
                changes |-> domain.attr["__changes"]]
    /\ UNCHANGED <<construction, api, _CACHE_GET, call, first_get, provider, domain>>

\* changes[key] in main, on what sync returned: the value of the key of a
\* dict; an object of a class without __getitem__ is not subscriptable.
subscript(obj, key) ==
    IF obj.py # "dict" THEN [raised |-> TypeError, value |-> None]
    ELSE IF \E i \in DOMAIN obj.items : obj.items[i][1] = key
    THEN [raised |-> None,
          value |-> obj.items[CHOOSE i \in DOMAIN obj.items :
                                  obj.items[i][1] = key][2]]
    ELSE [raised |-> KeyError, value |-> None]

(***************************************************************************)
(* Reconciliation of the host with its reverse records: the provider holds *)
(* the zone bb, possibly a reverse zone for 10.0.0.1, possibly the PTR     *)
(* record of 10.0.0.1 in it, and the drawn A record of the host.           *)
(***************************************************************************)
ReverseZoneNames ==
    { join(<< <<"1">>, <<"0">>, <<"0">>, <<"1", "0">>, InAddr, Arpa >>),
      join(<< <<"0">>, <<"0">>, <<"1", "0">>, InAddr, Arpa >>),
      join(<< <<"1", "0">>, InAddr, Arpa >>) }

\* The PTR record of an address in a reverse zone, pointing at a target.
PtrRecord(ip, zone, target) ==
    [zone |-> zone.id,
     data |-> [id |-> 20,
               name |-> SliceTo(reverse_pointer(ip), domain_length(zone.name)),
               type |-> "PTR",
               value |-> <<enabled(target)>>]]

ReverseZone(name) == [id |-> 2, name |-> name]

\* The host's FQDN with a trailing dot, and the name of another host.
PtrTargets == {"a.bb.", "x.bb."}

PtrProviders ==
    LET forward == { <<>>,
                     <<HostRecord(7, "A", <<enabled("10.0.0.1")>>)>>,
                     <<HostRecord(7, "A", <<enabled("10.0.0.2"),
                                            enabled("10.0.0.1")>>)>> }
    IN {[zones |-> {HostZone}, records |-> f] : f \in forward}
       \cup {[zones |-> {HostZone, ReverseZone(n)}, records |-> f] :
                f \in forward, n \in ReverseZoneNames}
       \cup {[zones |-> {HostZone, ReverseZone(n)},
              records |-> f \o <<PtrRecord("10.0.0.1", ReverseZone(n), t)>>] :
                f \in forward, n \in ReverseZoneNames, t \in PtrTargets}

InitPtr ==
    /\ construction = NotConstructed
    /\ api = None
    /\ _CACHE_GET = EmptyMap
    /\ call = Idle("")
    /\ first_get = EmptyMap
    /\ provider \in PtrProviders
    /\ domain = None
    /\ last = NoOperation

NextPtr ==
    \/ \E fqdn \in {HostFqdn, HostName} : Domain(fqdn)
    \/ get_known_ptr
    \/ \E values \in {None, PyList(<<"10.0.0.1">>)} : add_update("A", values)
    \/ sync_ptr
    \/ sync

SpecPtr == InitPtr /\ [][NextPtr]_vars

\* The {address: Domain} entries that get_known_ptr has left on the Domain.
KnownPtrs ==
    IF hasattr(domain, "ptr")
    THEN SetOf(domain.attr["ptr"].A) \cup SetOf(domain.attr["ptr"].AAAA)
    ELSE {}
\* The PTR records the reverse Domain of an entry holds.
PtrHeld(entry) == Records_get(entry.ptr.attr["records"], "PTR").items
\* The operations queued, on the Domain or on the reverse Domain of an
\* entry, that create the PTR record of the entry's address.
PtrCreates(entry) ==
    LET ops == domain.attr["__changes"] \o entry.ptr.attr["__changes"]
    IN {i \in DOMAIN ops : ops[i].type = "ptr" /\ ops[i].add}
\* All the operations queued, on the Domain and on the reverse Domains.
QueuedOperations(entry) ==
    Len(domain.attr["__changes"]) + Len(entry.ptr.attr["__changes"])

\* C20 (PTR create, then converge): after sync_ptr, for every known address
\* whose reverse zone was found, exactly one create of its PTR record is
\* queued when the reverse zone holds no PTR record for it, and nothing is
\* queued when the PTR record is there.
C20_PtrCreateThenConverge ==
    (last.op = "sync_ptr" /\ last.raised = None) =>
        \A entry \in KnownPtrs :
            IF PtrHeld(entry) = <<>>
            THEN Cardinality(PtrCreates(entry)) = 1
            ELSE QueuedOperations(entry) = 0

\* Whether the reverse name of an address lies in a registered zone.
Resolvable(ip) == SomeSuffixRegistered(split(reverse_pointer(ip)))
\* The records with the addresses of no reverse zone taken out of them.
WithoutUnresolvable(records) ==
    [i \in DOMAIN records |->
        [records[i] EXCEPT !.attr =
            ("values" :> SelectSeq(@["values"], Resolvable)) @@ @]]
\* The forward records of a type the Domain holds after get_known_ptr.
ForwardHeld(record_type) ==
    Records_get(domain.attr["records"], record_type).items

\* C21 (per-IP isolation on unresolvable reverse zones): when get_known_ptr
\* has run on a Domain with a zone, it has not raised, no operation is
\* queued, no entry is kept for an address whose reverse zone is not found,
\* and the entries kept are exactly those that the same records give with
\* the unresolvable addresses absent.
C21_PerIpIsolation ==
    (last.op = "get_known_ptr" /\ hasattr(domain, "parent_id")) =>
        /\ last.raised = None
        /\ domain.attr["__changes"] = <<>>
        /\ \A record_type \in {"A", "AAAA"} :
            LET entries == domain.attr["ptr"][record_type]
                held == ForwardHeld(record_type)
            IN /\ entries = ptr_of_records(WithoutUnresolvable(held),
                                           <<>>).ptr_records
               /\ \A i \in DOMAIN entries :
                    /\ Resolvable(entries[i].ip)
                    /\ entries[i].ptr.attr["__changes"] = <<>>
               /\ Len(held) = 1 =>
                    [i \in DOMAIN entries |-> entries[i].ip]
                        = SelectSeq(held[1].attr["values"], Resolvable)

\* Of two addresses of the host, one has a reverse zone and one has none:
\* the entry of the first is kept alone.
C21_Witness ==
    /\ last.op = "get_known_ptr"
    /\ last.raised = None
    /\ hasattr(domain, "parent_id")
    /\ Len(ForwardHeld("A")) = 1
    /\ Len(ForwardHeld("A")[1].attr["values"]) = 2
    /\ Len(domain.attr["ptr"].A) = 1
    /\ domain.attr["ptr"].A[1].ip = "10.0.0.1"

\* The operations of a kind among those the last sync sent: an operation of
\* a bulk request is marked by the key "add", "update" or "delete".
SentOfKind(key) ==
    Cardinality({i \in DOMAIN last.sent :
                    key \in DOMAIN last.sent[i] /\ last.sent[i][key] = TRUE})
Totals == [added |-> "add", updated |-> "update", deleted |-> "delete"]

\* C23 (aggregated totals): when sync has returned without raising, what it
\* returned gives under "added", "updated" and "deleted" the numbers of the
\* operations of that kind that were sent.
C23_AggregatedTotals ==
    (last.op = "sync" /\ last.raised = None) =>
        \A total \in DOMAIN Totals :
            subscript(last.result, total)
                = [raised |-> None, value |-> PyInt(SentOfKind(Totals[total]))]

\* The Records the store of the Domain holds, of every type.
HeldRecords ==
    IF domain # None /\ hasattr(domain, "records")
    THEN UNION {SetOf(domain.attr["records"].holder[t]) :
                    t \in DOMAIN domain.attr["records"].holder}
    ELSE {}
\* The entries of the payload a Record was made from, enabled or disabled.
Entries(record, flag) ==
    SelectSeq(record.attr["__provider_data"]["value"],
              LAMBDA e : e["disableFlag"] = flag)

\* C25 (no disabled values): in every state, the values of every Record the
\* store holds are the addresses of the enabled entries of its payload, in
\* their order; the address of a disabled entry is among them only when an
\* enabled entry has it too.
C25_NoDisabledValues ==
    \A record \in HeldRecords :
        LET on == Entries(record, FALSE)
            off == Entries(record, TRUE)
        IN /\ record.attr["values"]
                = [i \in DOMAIN on |-> ip_address(on[i]["value"])]
           /\ \A i \in DOMAIN off :
                InSeq(ip_address(off[i]["value"]), record.attr["values"]) =>
                    \E j \in DOMAIN on :
                        ip_address(on[j]["value"]) = ip_address(off[i]["value"])

\* The store holds a Record whose payload has a disabled entry.
C25_Witness ==
    \E record \in HeldRecords :
        /\ Entries(record, TRUE) # <<>>
        /\ Entries(record, FALSE) # <<>>

\* C26 (provider error carries the last status): when _send has raised
\* ConstellixAPIError, the url of the error is the URL of the request and
\* its status is the int that is the status code of the last response.
C26_ErrorCarriesLastStatus ==
    (Ended /\ call.outcome = "raised"
           /\ call.error.py = "ConstellixAPIError") =>
        /\ call.error.url = call.url
        /\ call.error.status = PyInt(LastStatus)

\* The ids of the records the provider's search gives for the Domain's name
\* and a type, and the ids of the Records the store holds for the type.
FetchedIds(record_type) ==
    LET found == RecordSearch(domain.attr["name"], domain.attr["parent_id"],
                              record_type)
    IN IF Truthy(found) THEN {found.items[i]["id"] : i \in DOMAIN found.items}
                        ELSE {}
HeldIds(record_type) ==
    {record.attr["id"] :
        record \in SetOf(Records_get(domain.attr["records"], record_type).items)}

\* C28 (store rebuilt on fetch): when get_all_records(T) has returned, the
\* Records the store holds for T are those of the records the fetch found,
\* one for each, and none when it found none.
C28_StoreRebuiltOnFetch ==
    (last.op = "get_all_records" /\ last.raised = None) =>
        /\ HeldIds(last.record_type) = FetchedIds(last.record_type)
        /\ last.result = Records_get(domain.attr["records"], last.record_type)

\* The {address: Domain} entries a Domain object keeps, the operations
\* queued on it and on the reverse Domain of an entry, and among these the
\* operations of a kind ("update", "delete") on the record of an id.
KnownPtrsOf(obj) ==
    IF hasattr(obj, "ptr")
    THEN SetOf(obj.attr["ptr"].A) \cup SetOf(obj.attr["ptr"].AAAA)
    ELSE {}
QueuedOn(obj, entry) == obj.attr["__changes"] \o entry.ptr.attr["__changes"]
OperationsOnId(obj, entry, kind, id) ==
    {i \in DOMAIN QueuedOn(obj, entry) :
        LET op == QueuedOn(obj, entry)[i]
        IN /\ kind \in DOMAIN op /\ op[kind] = TRUE
           /\ "id" \in DOMAIN op /\ op["id"] = id}
\* The text of the host's FQDN followed by a dot, as a PTR record holds it.
HostTarget == "a.bb."
\* sync_ptr is called, and returns, right after add_update was called with
\* the desired addresses of the host.
ReconciledAfterDesired ==
    /\ last.op = "add_update" /\ last.record_type = "A"
    /\ last'.op = "sync_ptr" /\ last'.raised = None

\* C29 (PTR target check): when sync_ptr has run after the desired
\* addresses were given, for every desired address whose reverse zone was
\* found and holds its PTR record, nothing is queued when the value of the
\* record is the host's FQDN with a trailing dot, and otherwise exactly one
\* operation is queued, an update of that record by its id.
C29_PtrTargetCheck ==
    [][ReconciledAfterDesired =>
        \A entry \in KnownPtrsOf(domain') :
            (entry.ip \in SetOf(DesiredValues) /\ PtrHeld(entry) # <<>>) =>
                LET record == PtrHeld(entry)[1]
                IN IF record.attr["values"] = <<HostTarget>>
                   THEN QueuedOn(domain', entry) = <<>>
                   ELSE /\ Len(QueuedOn(domain', entry)) = 1
                        /\ Cardinality(OperationsOnId(domain', entry, "update",
                                                      record.attr["id"])) = 1
       ]_vars

\* C30 (PTR delete on removed forward value): when sync_ptr has run after
\* the desired addresses were given (or none were), for every PTR record
\* held for a current address of the host exactly one delete of its id is
\* queued when the address is not desired, and none when it is.
C30_PtrDeleteOnRemoved ==
    [][ReconciledAfterDesired =>
        \A entry \in KnownPtrsOf(domain') :
            \A i \in DOMAIN PtrHeld(entry) :
                Cardinality(OperationsOnId(domain', entry, "delete",
                                           PtrHeld(entry)[i].attr["id"]))
                    = IF entry.ip \in SetOf(DesiredValues) THEN 0 ELSE 1
       ]_vars

\* C32 (no submission without a resolved zone): a sync that went through
\* was addressed to the id of a zone the provider holds, and a sync on a
\* Domain without a zone has raised DomainUpdateError and sent nothing.
C32_NoSubmissionWithoutZone ==
    last.op = "sync" =>
        IF hasattr(domain, "parent_id")
        THEN last.raised = None =>
                \E zone \in provider.zones : zone.id = domain.attr["parent_id"]
        ELSE /\ last.raised = DomainUpdateError
             /\ last.sent = <<>>

\* C40 (empty batch sends nothing): a sync on a Domain with a zone and with
\* nothing queued returns without raising, makes no request, and leaves what
\* the provider holds as it was.
C40_EmptyBatchSendsNothing ==
    [][(/\ last'.op = "sync"
        /\ hasattr(domain, "parent_id")
        /\ domain.attr["__changes"] = <<>>) =>
            /\ last'.raised = None
            /\ last'.requests = <<>>
            /\ provider' = provider
      ]_vars

\* A sync with nothing queued has returned, with records at the provider.
C40_Witness ==
    /\ last.op = "sync" /\ last.raised = None
    /\ last.sent = <<>> /\ last.requests = <<>>
    /\ provider.records # <<>>

\* C34 (cache entries are write-once): no step of any operation changes or
\* removes an entry the GET cache holds; the set of cached URLs only grows.
C34_CacheWriteOnce ==
    [][\A url \in DOMAIN _CACHE_GET :
            /\ url \in DOMAIN _CACHE_GET'
            /\ _CACHE_GET'[url] = _CACHE_GET[url]]_vars

\* A GET that does not use the cache has fetched, for a URL the cache holds,
\* a document other than the cached one, and the entry is still the old one.
C34_Witness ==
    /\ call.pc = "done" /\ call.method = "GET" /\ ~call.use_get_cache
    /\ call.outcome = "returned" /\ call.sent >= 1
    /\ call.url \in DOMAIN _CACHE_GET
    /\ _CACHE_GET[call.url].json = PyList(<<1>>)
    /\ call.value = PyList(<<2>>)

\* C35 (failed calls do not populate the cache): no step of a GET that uses
\* the cache and ends by raising changes the cache; the URL of such a call
\* is not in the cache; and the next GET of that URL that uses the cache
\* enters the loop, to be sent to the provider.
C35_FailedCallsLeaveCache ==
    /\ [][(/\ call'.method = "GET" /\ call'.use_get_cache
           /\ (call'.pc = "loop" \/ call'.outcome = "raised"))
              => _CACHE_GET' = _CACHE_GET]_vars
    /\ []((/\ call.pc = "done" /\ call.method = "GET" /\ call.use_get_cache
           /\ call.outcome = "raised")
              => call.url \notin DOMAIN _CACHE_GET)
    /\ [][(/\ call.pc = "done" /\ call.method = "GET" /\ call.use_get_cache
           /\ call.outcome = "raised"
           /\ call'.method = "GET" /\ call'.use_get_cache /\ call'.url = call.url
           /\ api' = api)
              => (call'.pc = "loop" /\ call'.sent = 0)]_vars

\* A GET that uses the cache has raised the provider error after two
\* attempts, with another URL in the cache.
C35_Witness ==
    /\ call.pc = "done" /\ call.method = "GET" /\ call.use_get_cache
    /\ call.outcome = "raised" /\ call.error.py = "ConstellixAPIError"
    /\ call.sent = 2
    /\ call.url \notin DOMAIN _CACHE_GET
    /\ DOMAIN _CACHE_GET # {}

\* C36 (missing trace header on failure): a call that has raised after a
\* last response without the X-Trace header has raised ConstellixAPIError,
\* whose trace is 'Unknown' as in the entry of the history.
C36_MissingTraceHeader ==
    (/\ Ended /\ call.outcome = "raised"
     /\ "X-Trace" \notin DOMAIN call.response.headers) =>
        /\ call.failures[Len(call.failures)].trace = "Unknown"
        /\ call.error.py = "ConstellixAPIError"
        /\ call.error.trace = "Unknown"

\* The payloads the fetch of a type gets by id for the records the search
\* found, and whether their names, as a Record keeps them, are all different.
FetchedData(record_type) ==
    {RecordGet(domain.attr["parent_id"], record_type, id) :
        id \in FetchedIds(record_type)}
DistinctNames(record_type) ==
    \A d, e \in FetchedData(record_type) :
        lower(d["name"]) = lower(e["name"]) => d = e

\* C37 (all fetched records are retained): when get_all_records(T) has
\* returned after a search that found several records whose names are all
\* different, the list it returned has one Record for each of them.
C37_AllFetchedRetained ==
    (/\ last.op = "get_all_records" /\ last.raised = None
     /\ Cardinality(FetchedIds(last.record_type)) > 1
     /\ DistinctNames(last.record_type)) =>
        /\ Len(last.result.items) = Cardinality(FetchedIds(last.record_type))
        /\ \A id \in FetchedIds(last.record_type) :
            \E i \in DOMAIN last.result.items :
                last.result.items[i].attr["id"] = id

\* C38 (a rejected store leaves the state unchanged): an assignment to a
\* slot of the store of a value that is not a Record, or of a Record without
\* a name, raises DomainRecordsError, and the store holds for the type what
\* it held before.
C38_RejectedStore ==
    [][(last'.op = "store" /\ hasattr(domain, "records")) =>
            /\ last'.raised = DomainRecordsError
            /\ Records_get(domain'.attr["records"], last'.record_type)
                 = Records_get(domain.attr["records"], last'.record_type)
      ]_vars

\* add_update was called with nothing desired and nothing current, or with
\* desired values that are the values of the current record.
NothingToReconcile ==
    /\ Diffed
    /\ \/ NoCurrent /\ DesiredAbsent
       \/ /\ HasCurrent /\ ~DesiredAbsent
          /\ SetOf(DesiredValues) = SetOf(CurrentRecord.attr["values"])

\* C39 (a no-op reconciliation queues nothing): add_update called with
\* nothing to reconcile has completed without an error, has queued nothing,
\* and pending_changes is False.
C39_NoOpQueuesNothing ==
    NothingToReconcile =>
        /\ last.raised = None
        /\ last.queued = 0
        /\ ~pending_changes(domain)


=============================================================================
